---- MODULE Spec2Model ----
(***************************************************************************)
(* A model of json-file-store.js: the file-backed cache store with a       *)
(* metadata index (meta.json), a primary document per entry (<path>.json), *)
(* external buffer files (<path>-<i>.bin) and oldest-first eviction.       *)
(*                                                                         *)
(* Byte strings are kept run-length encoded: a sequence of runs            *)
(* [n |-> count, b |-> byte], no empty run, adjacent runs of different     *)
(* bytes.  This is the same byte string as the expanded one, it only keeps *)
(* buffers of 1024 bytes and more small.                                   *)
(***************************************************************************)
EXTENDS Integers, Sequences, FiniteSets, TLC

VARIABLES docs, bins, meta, maxsize, now, last, failed, calls, written

vars == <<docs, bins, meta, maxsize, now, last, failed, calls, written>>

(***************************************************************************)
(* Bounds of the model.                                                    *)
(***************************************************************************)
\* Date.now() values run over 0..MaxClock; at MaxClock the clock stands still
\* (equal created stamps), it never stops the program.
MaxClock == 1

\* value.data.length >= 1024 (replacerFunction)
InlineThreshold == 1024

Paths == {"a", "b", "c"}

(***************************************************************************)
(* Byte strings.                                                           *)
(***************************************************************************)
Min(x, y) == IF x <= y THEN x ELSE y

\* n bytes, all equal to b
Fill(n, b) == IF n = 0 THEN <<>> ELSE <<[n |-> n, b |-> b]>>

RECURSIVE BLen(_)
BLen(bs) == IF bs = <<>> THEN 0 ELSE Head(bs).n + BLen(Tail(bs))

RECURSIVE BTake(_, _)
BTake(bs, k) ==
    IF k = 0 \/ bs = <<>> THEN <<>>
    ELSE IF Head(bs).n <= k
         THEN <<Head(bs)>> \o BTake(Tail(bs), k - Head(bs).n)
         ELSE <<[n |-> k, b |-> Head(bs).b]>>

RECURSIVE BDrop(_, _)
BDrop(bs, k) ==
    IF k = 0 \/ bs = <<>> THEN bs
    ELSE IF Head(bs).n <= k
         THEN BDrop(Tail(bs), k - Head(bs).n)
         ELSE <<[n |-> Head(bs).n - k, b |-> Head(bs).b]>> \o Tail(bs)

BCat(x, y) ==
    IF x = <<>> THEN y
    ELSE IF y = <<>> THEN x
    ELSE IF x[Len(x)].b = Head(y).b
         THEN SubSeq(x, 1, Len(x) - 1)
                \o <<[n |-> x[Len(x)].n + Head(y).n, b |-> Head(y).b]>>
                \o Tail(y)
         ELSE x \o y

\* Buffer.alloc(size): size zero bytes
BufferAlloc(size) == Fill(size, 0)

\* fs.read(fd, buffer, 0, length, 0): copies min(length, file size) bytes of
\* the file to the start of the buffer and leaves the rest of it as it was
FsRead(file, buffer, length) ==
    BCat(BTake(file, Min(length, BLen(file))),
         BDrop(buffer, Min(length, BLen(file))))

(***************************************************************************)
(* Values and their JSON text.                                             *)
(* A value is a tree of nodes: [t |-> "num", n], [t |-> "buf", data] (a    *)
(* Buffer) and [t |-> "arr", items].  A document is the tree that          *)
(* JSON.stringify writes: a Buffer is written as the marker                *)
(* {"type":"Buffer","data":[...]} or, replaced by replacerFunction, as     *)
(* {"type":"ExternalBuffer","index":i,"size":s}.                           *)
(***************************************************************************)
Num(n) == [t |-> "num", n |-> n]
Buf(data) == [t |-> "buf", data |-> data]
Arr(items) == [t |-> "arr", items |-> items]
BufferMarker(data) == [t |-> "Buffer", data |-> data]
ExternalBuffer(index, size) == [t |-> "ExternalBuffer", index |-> index, size |-> size]

\* number of characters of a non-negative integer in JSON text
RECURSIVE Digits(_)
Digits(n) == IF n < 10 THEN 1 ELSE 1 + Digits(n \div 10)

\* characters of the elements of "data":[...], commas included
RECURSIVE RunsChars(_)
RunsChars(bs) ==
    IF bs = <<>> THEN 0 ELSE Head(bs).n * Digits(Head(bs).b) + RunsChars(Tail(bs))

DataChars(bs) == IF bs = <<>> THEN 0 ELSE RunsChars(bs) + (BLen(bs) - 1)

\* dataString.length of a document
RECURSIVE JsonLen(_)
RECURSIVE ItemsLen(_)
JsonLen(d) ==
    CASE d.t = "num" -> Digits(d.n)
      [] d.t = "Buffer" -> 25 + DataChars(d.data) + 2
      [] d.t = "ExternalBuffer" -> 33 + Digits(d.index) + 8 + Digits(d.size) + 1
      [] d.t = "arr" -> 2 + ItemsLen(d.items)
                          + (IF d.items = <<>> THEN 0 ELSE Len(d.items) - 1)
ItemsLen(items) ==
    IF items = <<>> THEN 0 ELSE JsonLen(Head(items)) + ItemsLen(Tail(items))

(***************************************************************************)
(* exports.write, the encoding: JSON.stringify(data, replacerFunction).    *)
(* ext is externalBuffers so far: a sequence of [index, buffer].           *)
(***************************************************************************)
\* value.data.length >= 1024
IsExternal(data) == BLen(data) >= InlineThreshold

\* a placeholder numbered after the push: one more than the file's index
PlaceholderOffByOne(ext, data) == ExternalBuffer(Len(ext) + 1, BLen(data))

\* what replacerFunction returns for a Buffer it moves out
Placeholder(ext, data) == ExternalBuffer(Len(ext), BLen(data))

RECURSIVE Stringify(_, _)
RECURSIVE StringifyItems(_, _)
Stringify(v, ext) ==
    CASE v.t = "num" -> [doc |-> v, ext |-> ext]
      [] v.t = "buf" ->
            IF IsExternal(v.data)
            THEN [doc |-> Placeholder(ext, v.data),
                  ext |-> Append(ext, [index |-> Len(ext), buffer |-> v.data])]
            ELSE [doc |-> BufferMarker(v.data), ext |-> ext]
      [] v.t = "arr" ->
            LET r == StringifyItems(v.items, ext)
            IN  [doc |-> Arr(r.docs), ext |-> r.ext]
StringifyItems(items, ext) ==
    IF items = <<>> THEN [docs |-> <<>>, ext |-> ext]
    ELSE LET h == Stringify(Head(items), ext)
             r == StringifyItems(Tail(items), h.ext)
         IN  [docs |-> <<h.doc>> \o r.docs, ext |-> r.ext]

\* externalBuffersLength
RECURSIVE ExternalBuffersLength(_)
ExternalBuffersLength(ext) ==
    IF ext = <<>> THEN 0 ELSE BLen(Head(ext).buffer) + ExternalBuffersLength(Tail(ext))

\* newDataLength = dataString.length + externalBuffersLength
NewDataLength(enc) == JsonLen(enc.doc) + ExternalBuffersLength(enc.ext)

\* a size check that also turns away a value of exactly maxsize
TooLargeOrEqual(newDataLength, max) == newDataLength >= max

\* if (newDataLength > maxsize) throw
TooLarge(newDataLength, max) == newDataLength > max

(***************************************************************************)
(* exports.read, the decoding: JSON.parse(dataString, bufferReceiver) and  *)
(* the filling of the buffers from <path>-<index>.bin.                     *)
(***************************************************************************)
\* the index of every ExternalBuffer placeholder of a document
RECURSIVE ExternalRefs(_)
ExternalRefs(d) ==
    CASE d.t = "ExternalBuffer" -> {d.index}
      [] d.t = "arr" -> UNION {ExternalRefs(d.items[i]) : i \in 1..Len(d.items)}
      [] OTHER -> {}

\* the buffer of one placeholder: Buffer.alloc(size), then fs.read of
\* buffer.length bytes from the start of the file
FillExternal(d, file) == FsRead(file, BufferAlloc(d.size), d.size)

\* the value read back; files maps the index of every .bin file of the path
\* to its bytes
RECURSIVE Revive(_, _)
Revive(d, files) ==
    CASE d.t = "num" -> d
      [] d.t = "Buffer" -> Buf(d.data)
      [] d.t = "ExternalBuffer" -> Buf(FillExternal(d, files[d.index]))
      [] d.t = "arr" -> Arr([i \in 1..Len(d.items) |-> Revive(d.items[i], files)])

(***************************************************************************)
(* The files.  docs maps each path that has a <path>.json to its document, *)
(* bins maps <<path, i>> of each <path>-<i>.bin to its bytes, meta is      *)
(* <cachePath>/meta.json.                                                  *)
(***************************************************************************)
Remove(f, S) == [x \in DOMAIN f \ S |-> f[x]]
Put(f, x, y) == [z \in DOMAIN f \cup {x} |-> IF z = x THEN y ELSE f[z]]

NoFiles == [x \in {} |-> 0]
NoMeta == [exists |-> FALSE, size |-> 0, entries |-> <<>>]

\* the .bin files of a path, by index
BinsOf(b, path) == [i \in {x[2] : x \in {y \in DOMAIN b : y[1] = path}}
                        |-> b[<<path, i>>]]

\* readMetaFile: the parsed file, or the default when there is none
ReadMetaFile(file) ==
    IF file.exists THEN [size |-> file.size, entries |-> file.entries]
    ELSE [size |-> 0, entries |-> <<>>]

\* writeMetaFile
WriteMetaFile(metadata) ==
    [exists |-> TRUE, size |-> metadata.size, entries |-> metadata.entries]

(***************************************************************************)
(* metadata.entries is a JavaScript object: its keys keep their insertion  *)
(* order, which JSON.stringify, JSON.parse and Object.values follow.  It   *)
(* is a sequence of [path, size, created] with no path twice.              *)
(***************************************************************************)
HasEntry(entries, path) == \E i \in 1..Len(entries) : entries[i].path = path

EntryOf(entries, path) ==
    entries[CHOOSE i \in 1..Len(entries) : entries[i].path = path]

\* metadata.entries[path] = entry
SetEntry(entries, entry) ==
    IF HasEntry(entries, entry.path)
    THEN [i \in 1..Len(entries) |->
            IF entries[i].path = entry.path THEN entry ELSE entries[i]]
    ELSE Append(entries, entry)

\* delete metadata.entries[path]
RECURSIVE DeleteEntry(_, _)
DeleteEntry(entries, path) ==
    IF entries = <<>> THEN <<>>
    ELSE IF Head(entries).path = path THEN DeleteEntry(Tail(entries), path)
    ELSE <<Head(entries)>> \o DeleteEntry(Tail(entries), path)

RECURSIVE SumSizes(_)
SumSizes(entries) ==
    IF entries = <<>> THEN 0 ELSE Head(entries).size + SumSizes(Tail(entries))

(***************************************************************************)
(* reduceCacheSize                                                         *)
(***************************************************************************)
\* a comparator that puts the newest entry first
BeforeNewestFirst(x, y) == x.created > y.created

\* the comparator of the sort: x goes before y
Before(x, y) == x.created < y.created

\* Array.prototype.sort is stable: an entry goes after every entry that is
\* not after it
RECURSIVE InsertSorted(_, _)
InsertSorted(sorted, e) ==
    IF sorted = <<>> THEN <<e>>
    ELSE IF Before(e, Head(sorted)) THEN <<e>> \o sorted
    ELSE <<Head(sorted)>> \o InsertSorted(Tail(sorted), e)

RECURSIVE EntriesByDate(_)
EntriesByDate(entries) ==
    IF entries = <<>> THEN <<>>
    ELSE InsertSorted(EntriesByDate(SubSeq(entries, 1, Len(entries) - 1)),
                      entries[Len(entries)])

\* a loop condition the wrong way round: the loop never runs
KeepDeletingReversed(sizeDeleted, bytesToReduce) == sizeDeleted > bytesToReduce

\* while (sizeDeleted < bytesToReduce)
KeepDeleting(sizeDeleted, bytesToReduce) == sizeDeleted < bytesToReduce

\* a loop that stops quietly when entriesByDate is empty
RECURSIVE EvictLoopStopsAtEnd(_, _, _, _)
EvictLoopStopsAtEnd(entriesByDate, sizeDeleted, entriesToDelete, bytesToReduce) ==
    IF ~(sizeDeleted < bytesToReduce) \/ entriesByDate = <<>>
    THEN [fault |-> FALSE, entriesToDelete |-> entriesToDelete]
    ELSE EvictLoopStopsAtEnd(Tail(entriesByDate),
                             sizeDeleted + Head(entriesByDate).size,
                             Append(entriesToDelete, Head(entriesByDate)),
                             bytesToReduce)

\* the loop: entriesToDelete, and fault when entriesByDate.shift() gave
\* undefined (entry.size throws a TypeError)
RECURSIVE EvictLoop(_, _, _, _)
EvictLoop(entriesByDate, sizeDeleted, entriesToDelete, bytesToReduce) ==
    IF ~KeepDeleting(sizeDeleted, bytesToReduce)
    THEN [fault |-> FALSE, entriesToDelete |-> entriesToDelete]
    ELSE IF entriesByDate = <<>>
    THEN [fault |-> TRUE, entriesToDelete |-> entriesToDelete]
    ELSE EvictLoop(Tail(entriesByDate), sizeDeleted + Head(entriesByDate).size,
                   Append(entriesToDelete, Head(entriesByDate)), bytesToReduce)

\* an eviction that removes the entries and leaves metadata.size as it was
RECURSIVE DropEntriesKeepSize(_, _)
DropEntriesKeepSize(metadata, entriesToDelete) ==
    IF entriesToDelete = <<>> THEN metadata
    ELSE DropEntriesKeepSize([size |-> metadata.size,
                              entries |-> DeleteEntry(metadata.entries,
                                                      Head(entriesToDelete).path)],
                             Tail(entriesToDelete))

\* delete metadata.entries[entry.path]; metadata.size -= entry.size, for
\* every entry of entriesToDelete
RECURSIVE DropEntries(_, _)
DropEntries(metadata, entriesToDelete) ==
    IF entriesToDelete = <<>> THEN metadata
    ELSE DropEntries([size |-> metadata.size - Head(entriesToDelete).size,
                      entries |-> DeleteEntry(metadata.entries,
                                              Head(entriesToDelete).path)],
                     Tail(entriesToDelete))

\* the part of reduceCacheSize before the files are deleted
ReduceCacheSize(metadata, bytesToReduce) ==
    LET r == EvictLoop(EntriesByDate(metadata.entries), 0, <<>>, bytesToReduce)
    IN  [fault |-> r.fault,
         entriesToDelete |-> r.entriesToDelete,
         metadata |-> DropEntries(metadata, r.entriesToDelete)]

(***************************************************************************)
(* exports.delete, the files                                               *)
(***************************************************************************)
\* the first i for which unlink(path-i.bin) fails with ENOENT
RECURSIVE FirstMissingBin(_, _, _)
FirstMissingBin(b, path, i) ==
    IF <<path, i>> \in DOMAIN b THEN FirstMissingBin(b, path, i + 1) ELSE i

\* a delete that forgets the .bin files
UnlinkNoBins(b, path) == b

\* a loop that unlinks the first .bin file only
UnlinkFirstBin(b, path) == Remove(b, {<<path, 0>>})

\* the for loop of unlink(path-i.bin)
UnlinkBins(b, path) ==
    Remove(b, {<<path, i>> : i \in 0..(FirstMissingBin(b, path, 0) - 1)})

\* Promise.all(entriesToDelete.map(entry => exports.delete(entry.path, {}))):
\* every delete is started; one whose <path>.json is missing rejects at its
\* first unlink and removes nothing, the others run to their end.
EvictedPaths(entriesToDelete) ==
    {entriesToDelete[i].path : i \in 1..Len(entriesToDelete)}

RECURSIVE UnlinkBinsOfAll(_, _)
UnlinkBinsOfAll(b, paths) ==
    IF paths = {} THEN b
    ELSE LET q == CHOOSE x \in paths : TRUE
         IN  UnlinkBinsOfAll(UnlinkBins(b, q), paths \ {q})

DeleteEvicted(d, b, entriesToDelete) ==
    LET there == EvictedPaths(entriesToDelete) \cap DOMAIN d
    IN  [rejected |-> EvictedPaths(entriesToDelete) # there,
         docs |-> Remove(d, there),
         bins |-> UnlinkBinsOfAll(b, there)]

(***************************************************************************)
(* The inputs.                                                             *)
(***************************************************************************)
\* a Buffer one byte under the threshold: it stays in the document
ValInline == Buf(Fill(InlineThreshold - 1, 1))
\* a Buffer at the threshold: one external buffer
ValOne == Buf(Fill(InlineThreshold, 2))
\* a nested value with a small Buffer between two external ones
ValTwo == Arr(<<Buf(Fill(InlineThreshold, 3)),
                Arr(<<Num(7), Buf(Fill(2, 4)),
                      Buf(BCat(Fill(InlineThreshold, 5), Fill(1, 6)))>>)>>)

Values == {ValOne, ValTwo}

\* the maxsize of the cache: the size of ValOne exactly, and room for two
\* entries of that size or one of the size of ValTwo
MaxSizes == {1071, 2200}

(***************************************************************************)
(* The state machine: the calls run one after the other, each to its end.  *)
(* last is the call that ended last: its arguments, its outcome, and for a *)
(* write its newDataLength (size) and the paths of the entriesToDelete of   *)
(* reduceCacheSize (evicted); for a delete with an entry, the size of the  *)
(* entry; for a read, value is what it returned.  failed tells whether a   *)
(* write or a delete has failed so far.                                    *)
(***************************************************************************)
NoCall == [op |-> "none", path |-> "", ok |-> TRUE, err |-> "", value |-> Num(0),
           size |-> 0, evicted |-> <<>>]

\* The calls in progress, for the specifications that follow the steps of
\* a call: calls maps each of Procs to the position and the local variables
\* of its call.
\*   op, pc       the function called and the await it is at
\*   path, data   the arguments
\*   metadata     the metadata object of exports.write
\*   victims      the paths of entriesToDelete whose delete has not ended
\*   rejected     a delete of reduceCacheSize has rejected
\*   todo         the indices of the external buffers not yet written / read
\*   doc, got     the parsed document of exports.read and the files read
\*   ok, err, value, evicted   the outcome (pc = "done"), as in last
\*   created      the Date.now() of the entry of exports.write, 0 before
\*   persists     how often the call has written the index
\*   lost         the created of the calls that wrote the index after this
\*                one loaded it and before this one wrote it
\*   hit          files of the path of this call were removed by the
\*                eviction of another call while this one was running
\*   expect       what exports.read would give, taken when the read began
Procs == {1, 2}

IdleCall == [op |-> "none", pc |-> "idle", path |-> "", data |-> Num(0),
             metadata |-> [size |-> 0, entries |-> <<>>],
             victims |-> {}, rejected |-> FALSE, todo |-> {},
             doc |-> Num(0), got |-> NoFiles,
             ok |-> TRUE, err |-> "", value |-> Num(0), evicted |-> <<>>,
             created |-> 0, persists |-> 0, lost |-> {}, hit |-> FALSE,
             expect |-> [ok |-> FALSE, value |-> Num(0)]]

NoCalls == [p \in Procs |-> IdleCall]

Init ==
    /\ docs = NoFiles
    /\ bins = NoFiles
    /\ meta = NoMeta
    /\ maxsize \in MaxSizes
    /\ now = 0
    /\ last = NoCall
    /\ failed = FALSE
    /\ calls = NoCalls
    /\ written = {}

\* the paths of entriesToDelete, in their order
PathsOf(entries) == [i \in 1..Len(entries) |-> entries[i].path]

Call(op, path, ok, err, value, size, entriesToDelete) ==
    [op |-> op, path |-> path, ok |-> ok, err |-> err, value |-> value,
     size |-> size, evicted |-> PathsOf(entriesToDelete)]

\* a save of the external buffers that numbers the files from 1
RECURSIVE WriteBinsFromOne(_, _, _)
WriteBinsFromOne(b, path, ext) ==
    IF ext = <<>> THEN b
    ELSE WriteBinsFromOne(Put(b, <<path, Head(ext).index + 1>>, Head(ext).buffer),
                          path, Tail(ext))

\* the .bin files after Promise.all(externalBuffers.map(writeFile))
RECURSIVE WriteBins(_, _, _)
WriteBins(b, path, ext) ==
    IF ext = <<>> THEN b
    ELSE WriteBins(Put(b, <<path, Head(ext).index>>, Head(ext).buffer), path, Tail(ext))

\* metadata.size += newDataLength; metadata.entries[path] = {...}
AddEntry(metadata, path, newDataLength, created) ==
    [size |-> metadata.size + newDataLength,
     entries |-> SetEntry(metadata.entries,
                          [path |-> path, size |-> newDataLength, created |-> created])]

\* newCacheSize > maxsize
OverBudget(newCacheSize, max) == newCacheSize > max

\* exports.write from "save main json file" to its end
WriteTail(path, data, enc, created, metadata, d, b, entriesToDelete) ==
    /\ docs' = Put(d, path, enc.doc)
    /\ meta' = WriteMetaFile(AddEntry(metadata, path, NewDataLength(enc), created))
    /\ bins' = WriteBins(b, path, enc.ext)
    /\ now' = created
    /\ last' = Call("write", path, TRUE, "", data, NewDataLength(enc), entriesToDelete)
    /\ UNCHANGED failed

\* exports.write(path, data, {path: cachePath, maxsize}); created is Date.now()
Write(path, data, created) ==
    LET enc == Stringify(data, <<>>)
        newDataLength == NewDataLength(enc)
        metadata == ReadMetaFile(meta)
        newCacheSize == metadata.size + newDataLength
        bytesToReduce == newCacheSize - maxsize
        red == ReduceCacheSize(metadata, bytesToReduce)
        del == DeleteEvicted(docs, bins, red.entriesToDelete)
    IN  IF TooLarge(newDataLength, maxsize)
        THEN /\ last' = Call("write", path, FALSE, "too large", data, newDataLength, <<>>)
             /\ failed' = TRUE
             /\ UNCHANGED <<docs, bins, meta, maxsize, now>>
        ELSE IF ~OverBudget(newCacheSize, maxsize)
        THEN /\ WriteTail(path, data, enc, created, metadata, docs, bins, <<>>)
             /\ UNCHANGED maxsize
        ELSE IF red.fault
        THEN /\ last' = Call("write", path, FALSE, "TypeError", data, newDataLength,
                             red.entriesToDelete)
             /\ failed' = TRUE
             /\ UNCHANGED <<docs, bins, meta, maxsize, now>>
        ELSE IF del.rejected
        THEN /\ docs' = del.docs
             /\ bins' = del.bins
             /\ last' = Call("write", path, FALSE, "ENOENT", data, newDataLength,
                             red.entriesToDelete)
             /\ failed' = TRUE
             /\ UNCHANGED <<meta, maxsize, now>>
        ELSE /\ WriteTail(path, data, enc, created, red.metadata, del.docs, del.bins,
                          red.entriesToDelete)
             /\ UNCHANGED maxsize

\* metadata.size -= metadata.entries[path].size (the entry is left in place)
ForgetSize(metadata, path) ==
    [metadata EXCEPT !.size = @ - EntryOf(metadata.entries, path).size]

\* a delete that takes ENOENT of the first unlink as done and goes on
DocMissingIgnored(d, path) == FALSE

\* unlink(path + '.json') fails with ENOENT, which delete lets through
DocMissing(d, path) == path \notin DOMAIN d

\* exports.delete(path, {path: cachePath})
Delete(path) ==
    LET metadata == ReadMetaFile(meta)
    IN  IF DocMissing(docs, path)
        THEN /\ last' = Call("delete", path, FALSE, "ENOENT", Num(0), 0, <<>>)
             /\ failed' = TRUE
             /\ UNCHANGED <<docs, bins, meta, maxsize, now>>
        ELSE /\ docs' = Remove(docs, {path})
             /\ bins' = UnlinkBins(bins, path)
             /\ IF HasEntry(metadata.entries, path)
                THEN /\ meta' = WriteMetaFile(ForgetSize(metadata, path))
                     /\ last' = Call("delete", path, TRUE, "", Num(0),
                                     EntryOf(metadata.entries, path).size, <<>>)
                     /\ UNCHANGED failed
                ELSE /\ meta' = meta
                     /\ last' = Call("delete", path, FALSE, "TypeError", Num(0), 0, <<>>)
                     /\ failed' = TRUE
             /\ UNCHANGED <<maxsize, now>>

\* a <path>.json whose writeFile was cut short: not JSON text
TornDocument == [t |-> "torn"]

\* what exports.read(path) gives in the current state
ReadResult(path) ==
    IF path \notin DOMAIN docs THEN [ok |-> FALSE, err |-> "ENOENT", value |-> Num(0)]
    ELSE IF docs[path] = TornDocument
    THEN [ok |-> FALSE, err |-> "SyntaxError", value |-> Num(0)]
    ELSE IF \E i \in ExternalRefs(docs[path]) : <<path, i>> \notin DOMAIN bins
    THEN [ok |-> FALSE, err |-> "ENOENT", value |-> Num(0)]
    ELSE [ok |-> TRUE, err |-> "", value |-> Revive(docs[path], BinsOf(bins, path))]

\* exports.read(path)
Read(path) ==
    /\ last' = Call("read", path, ReadResult(path).ok, ReadResult(path).err,
                    ReadResult(path).value, 0, <<>>)
    /\ UNCHANGED <<docs, bins, meta, maxsize, now, failed>>

Next ==
    \/ \E path \in Paths, data \in Values, created \in {now, Min(now + 1, MaxClock)} :
            Write(path, data, created) /\ UNCHANGED <<calls, written>>
    \/ \E path \in Paths : Delete(path) /\ UNCHANGED <<calls, written>>
    \/ \E path \in Paths : Read(path) /\ UNCHANGED <<calls, written>>

Spec == Init /\ [][Next]_vars

(***************************************************************************)
(* The codec on more values: one path, written again and again with values *)
(* of no, one and two external buffers, Buffers of 0, 2, 5, 1023, 1024 and *)
(* 1025 bytes, and read and deleted in between.  Date.now() moves on with  *)
(* every write here, up to MaxCodecClock.                                  *)
(***************************************************************************)
MaxCodecClock == 3

\* a Buffer of two runs of bytes under the threshold, beside a number
ValMixed == Arr(<<Buf(BCat(Fill(3, 255), Fill(2, 0))), Num(12)>>)

CodecValues == {Arr(<<>>), Buf(<<>>), ValMixed, ValInline, ValOne, ValTwo}

\* room for the largest value alone, and for two of them
CodecMaxSizes == {2200, 4400}

InitCodec ==
    /\ docs = NoFiles
    /\ bins = NoFiles
    /\ meta = NoMeta
    /\ maxsize \in CodecMaxSizes
    /\ now = 0
    /\ last = NoCall
    /\ failed = FALSE
    /\ calls = NoCalls
    /\ written = {}

NextCodec ==
    \/ \E data \in CodecValues :
            /\ now < MaxCodecClock
            /\ Write("a", data, now + 1)
            /\ UNCHANGED <<calls, written>>
    \/ Delete("a") /\ UNCHANGED <<calls, written>>
    \/ Read("a") /\ UNCHANGED <<calls, written>>

SpecCodec == InitCodec /\ [][NextCodec]_vars

(***************************************************************************)
(* exports.delete without a cachePath, the call reduceCacheSize makes: the *)
(* files are removed and meta.json is neither read nor written.  The calls *)
(* of the codec on one path, with this delete beside the one with a        *)
(* cachePath.  value of the outcome is the i at which the loop ended, the  *)
(* number of .bin files unlinked.                                          *)
(***************************************************************************)
\* exports.delete(path, {})
DeleteNoRoot(path) ==
    IF DocMissing(docs, path)
    THEN /\ last' = Call("delete", path, FALSE, "ENOENT", Num(0), 0, <<>>)
         /\ failed' = TRUE
         /\ UNCHANGED <<docs, bins, meta, maxsize, now>>
    ELSE /\ docs' = Remove(docs, {path})
         /\ bins' = UnlinkBins(bins, path)
         /\ last' = Call("delete", path, TRUE, "", Num(FirstMissingBin(bins, path, 0)),
                         0, <<>>)
         /\ UNCHANGED <<meta, maxsize, now, failed>>

NextDelete ==
    \/ \E data \in CodecValues :
            /\ now < MaxCodecClock
            /\ Write("a", data, now + 1)
            /\ UNCHANGED <<calls, written>>
    \/ Delete("a") /\ UNCHANGED <<calls, written>>
    \/ DeleteNoRoot("a") /\ UNCHANGED <<calls, written>>
    \/ Read("a") /\ UNCHANGED <<calls, written>>

SpecDelete == InitCodec /\ [][NextDelete]_vars

(***************************************************************************)
(* Every path written at most once and no delete called: written is the    *)
(* set of the paths exports.write has been called with.  Date.now() stays  *)
(* or moves on by one with every write.                                    *)
(***************************************************************************)
OncePaths == {"a", "b", "c", "d"}

\* with and without external buffers
OnceValues == {ValMixed, ValOne, ValTwo}

\* the size of ValOne, of ValTwo with some room, and room for three ValOne
OnceMaxSizes == {1071, 2200, 3300}

InitOnce ==
    /\ docs = NoFiles
    /\ bins = NoFiles
    /\ meta = NoMeta
    /\ maxsize \in OnceMaxSizes
    /\ now = 0
    /\ last = NoCall
    /\ failed = FALSE
    /\ calls = NoCalls
    /\ written = {}

WriteOnce(path, data, created) ==
    /\ path \notin written
    /\ Write(path, data, created)
    /\ written' = written \cup {path}
    /\ UNCHANGED calls

NextOnce ==
    \/ \E path \in OncePaths, data \in OnceValues, created \in {now, now + 1} :
            WriteOnce(path, data, created)
    \/ \E path \in OncePaths : Read(path) /\ UNCHANGED <<calls, written>>

SpecOnce == InitOnce /\ [][NextOnce]_vars

(***************************************************************************)
(* The calls step by step.  Every await of exports.write and exports.read  *)
(* is a step of its own, so that the steps of two calls can interleave and *)
(* a crash can fall between two of them:                                   *)
(*   exports.write  "load" readMetaFile, "evict" the deletes of            *)
(*                  reduceCacheSize (one step for each path), "doc" the    *)
(*                  writeFile of <path>.json, "persist" writeMetaFile,     *)
(*                  "segs" the writeFile of each .bin file                 *)
(*   exports.read   "readDoc" the readFile of <path>.json, "readBins" the  *)
(*                  open, read and close of each .bin file                 *)
(* A call that has returned is at "done" with its outcome.  Two calls in   *)
(* progress at once are on different paths.                                *)
(***************************************************************************)
StepPaths == {"a", "b"}

StepValues == {ValOne, ValTwo}

\* room for one value, or for two of the size of ValOne
StepMaxSizes == {2200}

InitStep ==
    /\ docs = NoFiles
    /\ bins = NoFiles
    /\ meta = NoMeta
    /\ maxsize \in StepMaxSizes
    /\ now = 0
    /\ last = NoCall
    /\ failed = FALSE
    /\ calls = NoCalls
    /\ written = {}

InFlight(c) == c.pc \notin {"idle", "done"}

\* the call has returned: the promise is resolved or rejected
Done(c, ok, err, value) ==
    [c EXCEPT !.pc = "done", !.ok = ok, !.err = err, !.value = value,
              !.victims = {}, !.rejected = FALSE, !.todo = {},
              !.doc = Num(0), !.got = NoFiles]

\* an order of the awaits with the .bin files written before the index
AwaitAfterSegsFirst(pc) ==
    CASE pc = "evict" -> "doc"
      [] pc = "doc" -> "segs"
      [] pc = "segs" -> "persist"
      [] pc = "persist" -> "done"

\* the await of exports.write that follows the one at pc
AwaitAfter(pc) ==
    CASE pc = "evict" -> "doc"
      [] pc = "doc" -> "persist"
      [] pc = "persist" -> "segs"
      [] pc = "segs" -> "done"

\* the call moves on to the await pc; Promise.all of no external buffer is
\* passed at once
RECURSIVE Arrive(_, _)
Arrive(c, pc) ==
    IF pc = "done" THEN Done(c, TRUE, "", c.data)
    ELSE IF pc = "segs" /\ c.todo = {} THEN Arrive(c, AwaitAfter("segs"))
    ELSE [c EXCEPT !.pc = pc]

\* a meta.json whose writeFile was cut short: not JSON text
BrokenMeta == [exists |-> TRUE, size |-> 0, entries |-> <<>>, broken |-> TRUE]

\* JSON.parse(fileContents) throws SyntaxError
IsBroken(file) == "broken" \in DOMAIN file

\* the writes that hold a Date.now() still to come
Stamping == {p \in Procs : calls[p].op = "write" /\ calls[p].pc \in {"load", "evict", "doc"}}

\* exports.write is called: JSON.stringify and the size check
StartWrite(p, path, data, maxClock) ==
    LET enc == Stringify(data, <<>>)
        c == [IdleCall EXCEPT !.op = "write", !.path = path, !.data = data,
                              !.todo = {enc.ext[i].index : i \in 1..Len(enc.ext)}]
    IN  /\ ~InFlight(calls[p])
        /\ \A q \in Procs \ {p} : InFlight(calls[q]) => calls[q].path # path
        /\ now + Cardinality(Stamping) < maxClock
        /\ calls' = [calls EXCEPT ![p] =
                        IF TooLarge(NewDataLength(enc), maxsize)
                        THEN Done(c, FALSE, "too large", data)
                        ELSE [c EXCEPT !.pc = "load"]]
        /\ UNCHANGED <<docs, bins, meta, maxsize, now, last, failed, written>>

\* readMetaFile has returned; the loop of reduceCacheSize runs and every
\* delete of its Promise.all is started
Load(p) ==
    LET c == calls[p]
        newDataLength == NewDataLength(Stringify(c.data, <<>>))
        metadata == ReadMetaFile(meta)
        newCacheSize == metadata.size + newDataLength
        red == ReduceCacheSize(metadata, newCacheSize - maxsize)
    IN  /\ c.op = "write" /\ c.pc = "load"
        /\ calls' = [calls EXCEPT ![p] =
                IF IsBroken(meta) THEN Done(c, FALSE, "not valid json", c.data)
                ELSE IF ~OverBudget(newCacheSize, maxsize)
                THEN Arrive([c EXCEPT !.metadata = metadata], AwaitAfter("evict"))
                ELSE IF red.fault
                THEN [Done(c, FALSE, "TypeError", c.data)
                        EXCEPT !.evicted = PathsOf(red.entriesToDelete)]
                ELSE [c EXCEPT !.pc = "evict",
                               !.metadata = red.metadata,
                               !.victims = EvictedPaths(red.entriesToDelete),
                               !.evicted = PathsOf(red.entriesToDelete)]]
        /\ UNCHANGED <<docs, bins, meta, maxsize, now, last, failed, written>>

\* exports.delete(x, {}) of reduceCacheSize has ended: with ENOENT at its
\* first unlink, or with the files of x removed.  reduceCacheSize ends when
\* every delete has.
Evict(p, x) ==
    LET c == calls[p]
        missing == DocMissing(docs, x)
        c2 == [c EXCEPT !.victims = @ \ {x}, !.rejected = @ \/ missing]
        c3 == IF c2.victims # {} THEN c2
              ELSE IF c2.rejected THEN Done(c2, FALSE, "ENOENT", c.data)
              ELSE Arrive(c2, AwaitAfter("evict"))
    IN  /\ c.op = "write" /\ c.pc = "evict" /\ x \in c.victims
        /\ docs' = IF missing THEN docs ELSE Remove(docs, {x})
        /\ bins' = IF missing THEN bins ELSE UnlinkBins(bins, x)
        /\ calls' = [q \in Procs |->
                IF q = p THEN c3
                ELSE IF InFlight(calls[q]) /\ calls[q].path = x /\ ~missing
                THEN [calls[q] EXCEPT !.hit = TRUE]
                ELSE calls[q]]
        /\ UNCHANGED <<meta, maxsize, now, last, failed, written>>

\* writeFile of <path>.json has ended; the entry is made with Date.now()
\* and writeMetaFile is called with the text of metadata as it is now
WriteDoc(p) ==
    LET c == calls[p]
        enc == Stringify(c.data, <<>>)
        created == now + 1
        c2 == [c EXCEPT !.metadata = AddEntry(@, c.path, NewDataLength(enc), created),
                        !.created = created]
    IN  /\ c.op = "write" /\ c.pc = "doc"
        /\ docs' = Put(docs, c.path, enc.doc)
        /\ now' = created
        /\ calls' = [calls EXCEPT ![p] = Arrive(c2, AwaitAfter("doc"))]
        /\ UNCHANGED <<bins, meta, maxsize, last, failed, written>>

\* a writeMetaFile that keeps the entries of the file that metadata lacks
MergedIndex(file, metadata) ==
    LET old == IF file.exists /\ ~IsBroken(file) THEN file.entries ELSE <<>>
        kept == SelectSeq(old, LAMBDA e : ~HasEntry(metadata.entries, e.path))
    IN  WriteMetaFile([size |-> metadata.size + SumSizes(kept),
                       entries |-> metadata.entries \o kept])

\* meta.json after fs.writeFile(metaFilePath, JSON.stringify(metadata)):
\* whatever the file held is replaced
PersistedIndex(file, metadata) == WriteMetaFile(metadata)

\* writeMetaFile has ended
Persist(p) ==
    LET c == calls[p]
        c2 == [c EXCEPT !.persists = @ + 1]
    IN  /\ c.op = "write" /\ c.pc = "persist"
        /\ meta' = PersistedIndex(meta, c.metadata)
        /\ calls' = [q \in Procs |->
                IF q = p THEN Arrive(c2, AwaitAfter("persist"))
                ELSE IF calls[q].op = "write" /\ calls[q].pc \in {"evict", "doc", "persist"}
                THEN [calls[q] EXCEPT !.lost = @ \cup {c.created}]
                ELSE calls[q]]
        /\ UNCHANGED <<docs, bins, maxsize, now, last, failed, written>>

\* writeFile of <path>-<i>.bin has ended
Seg(p, i) ==
    LET c == calls[p]
        enc == Stringify(c.data, <<>>)
        c2 == [c EXCEPT !.todo = @ \ {i}]
    IN  /\ c.op = "write" /\ c.pc = "segs" /\ i \in c.todo
        /\ bins' = Put(bins, <<c.path, i>>, enc.ext[i + 1].buffer)
        /\ calls' = [calls EXCEPT ![p] =
                        IF c2.todo = {} THEN Arrive(c2, AwaitAfter("segs")) ELSE c2]
        /\ UNCHANGED <<docs, meta, maxsize, now, last, failed, written>>

\* exports.read is called
StartRead(p, path) ==
    /\ ~InFlight(calls[p])
    /\ \A q \in Procs \ {p} : InFlight(calls[q]) => calls[q].path # path
    /\ calls' = [calls EXCEPT ![p] =
                    [IdleCall EXCEPT !.op = "read", !.pc = "readDoc", !.path = path,
                                     !.expect = [ok |-> ReadResult(path).ok,
                                                 value |-> ReadResult(path).value]]]
    /\ UNCHANGED <<docs, bins, meta, maxsize, now, last, failed, written>>

\* a read that looks the path up in meta.json first
ReadFileOfEntry(d, path) ==
    IF /\ path \in DOMAIN d
       /\ ~IsBroken(meta)
       /\ HasEntry(ReadMetaFile(meta).entries, path)
    THEN [found |-> TRUE, doc |-> d[path]]
    ELSE [found |-> FALSE, doc |-> Num(0)]

\* fs.readFile(path + '.json')
ReadFile(d, path) ==
    IF path \in DOMAIN d THEN [found |-> TRUE, doc |-> d[path]]
    ELSE [found |-> FALSE, doc |-> Num(0)]

\* readFile of <path>.json has ended and JSON.parse has run
ReadDoc(p) ==
    LET c == calls[p]
        f == ReadFile(docs, c.path)
    IN  /\ c.op = "read" /\ c.pc = "readDoc"
        /\ calls' = [calls EXCEPT ![p] =
                IF ~f.found THEN Done(c, FALSE, "ENOENT", Num(0))
                ELSE IF f.doc = TornDocument THEN Done(c, FALSE, "SyntaxError", Num(0))
                ELSE IF ExternalRefs(f.doc) = {}
                THEN Done(c, TRUE, "", Revive(f.doc, NoFiles))
                ELSE [c EXCEPT !.pc = "readBins", !.doc = f.doc,
                               !.todo = ExternalRefs(f.doc)]]
        /\ UNCHANGED <<docs, bins, meta, maxsize, now, last, failed, written>>

\* a read that opens the first .bin file for every external buffer
ReadBinPathZero(path, index) == <<path, 0>>

\* path + '-' + +externalBuffer.index + '.bin'
ReadBinPath(path, index) == <<path, index>>

\* fs.open, fs.read and fs.close of one .bin file have ended
ReadBin(p, i) ==
    LET c == calls[p]
        file == ReadBinPath(c.path, i)
        got == IF file \in DOMAIN bins THEN Put(c.got, i, bins[file]) ELSE c.got
        c2 == [c EXCEPT !.todo = @ \ {i}, !.got = got]
    IN  /\ c.op = "read" /\ c.pc = "readBins" /\ i \in c.todo
        /\ calls' = [calls EXCEPT ![p] =
                IF file \notin DOMAIN bins THEN Done(c, FALSE, "ENOENT", Num(0))
                ELSE IF c2.todo = {} THEN Done(c2, TRUE, "", Revive(c.doc, got))
                ELSE c2]
        /\ UNCHANGED <<docs, bins, meta, maxsize, now, last, failed, written>>

\* the steps of the call of p
Steps(p, maxClock) ==
    \/ \E path \in StepPaths, data \in StepValues : StartWrite(p, path, data, maxClock)
    \/ Load(p)
    \/ \E x \in StepPaths : Evict(p, x)
    \/ WriteDoc(p)
    \/ Persist(p)
    \/ \E i \in calls[p].todo : Seg(p, i)
    \/ \E path \in StepPaths : StartRead(p, path)
    \/ ReadDoc(p)
    \/ \E i \in calls[p].todo : ReadBin(p, i)

(***************************************************************************)
(* Two calls at once, their steps interleaved in every order.              *)
(***************************************************************************)
MaxConcClock == 3

NextConc == \E p \in Procs : Steps(p, MaxConcClock)

SpecConc == InitStep /\ [][NextConc]_vars

(***************************************************************************)
(* One call at a time, and the process can end at every await: the calls   *)
(* in progress are gone and the files stay as they are.  A writeFile that  *)
(* is cut short leaves a file with the first bytes of its data, or none.   *)
(***************************************************************************)
MaxCrashClock == 3

\* how much of a file of n bytes a writeFile cut short has written
TornLengths(n) == {0, n \div 2}

Crash ==
    /\ \E p \in Procs : InFlight(calls[p])
    /\ calls' = NoCalls
    /\ UNCHANGED <<docs, bins, meta, maxsize, now, last, failed, written>>

CrashInDoc(p) ==
    /\ calls[p].op = "write" /\ calls[p].pc = "doc"
    /\ docs' = Put(docs, calls[p].path, TornDocument)
    /\ calls' = NoCalls
    /\ UNCHANGED <<bins, meta, maxsize, now, last, failed, written>>

CrashInPersist(p) ==
    /\ calls[p].op = "write" /\ calls[p].pc = "persist"
    /\ meta' = BrokenMeta
    /\ calls' = NoCalls
    /\ UNCHANGED <<docs, bins, maxsize, now, last, failed, written>>

CrashInSeg(p, i, k) ==
    LET buffer == Stringify(calls[p].data, <<>>).ext[i + 1].buffer
    IN  /\ calls[p].op = "write" /\ calls[p].pc = "segs" /\ i \in calls[p].todo
        /\ k \in TornLengths(BLen(buffer))
        /\ bins' = Put(bins, <<calls[p].path, i>>, BTake(buffer, k))
        /\ calls' = NoCalls
        /\ UNCHANGED <<docs, meta, maxsize, now, last, failed, written>>

NextCrash ==
    \/ Steps(1, MaxCrashClock)
    \/ Crash
    \/ CrashInDoc(1)
    \/ CrashInPersist(1)
    \/ \E i \in calls[1].todo, k \in 0..InlineThreshold : CrashInSeg(1, i, k)

SpecCrash == InitStep /\ [][NextCrash]_vars

(***************************************************************************)
(* Properties                                                              *)
(***************************************************************************)
\* the last call was a write or a delete that succeeded, and none failed
\* before it
AfterSuccess == ~failed /\ last.op \in {"write", "delete"} /\ last.ok

RECURSIVE SumOver(_, _)
SumOver(f, S) ==
    IF S = {} THEN 0
    ELSE LET x == CHOOSE y \in S : TRUE IN BLen(f[x]) + SumOver(f, S \ {x})

\* the bytes on disk of a path: its document and the .bin files the
\* document refers to
SizeOnDisk(path) ==
    IF path \in DOMAIN docs
    THEN JsonLen(docs[path])
           + SumOver(BinsOf(bins, path),
                     ExternalRefs(docs[path]) \cap DOMAIN BinsOf(bins, path))
    ELSE 0

RECURSIVE SizeOnDiskOf(_)
SizeOnDiskOf(entries) ==
    IF entries = <<>> THEN 0
    ELSE SizeOnDisk(Head(entries).path) + SizeOnDiskOf(Tail(entries))

\* C1: after every successful write or delete, in a history of successful
\* calls from an empty cache root, the size of the index is the sum of the
\* sizes of its entries.
C1_SizeIsSumOfEntries == AfterSuccess => meta.size = SumSizes(meta.entries)

\* C2: after every successful write or delete, in a history of successful
\* calls, the size of the index is the number of bytes on disk of the
\* entries of the index (document plus external buffer files).
C2_SizeIsBytesOnDisk == AfterSuccess => meta.size = SizeOnDiskOf(meta.entries)

\* C3: a write whose newDataLength is greater than maxsize fails and changes
\* no document, no .bin file and not the index, and evicts nothing; a write
\* whose newDataLength equals maxsize is not turned away by the size check.
C3_OversizeRejectedBeforeIO ==
    [][/\ (last'.op = "write" /\ last'.size > maxsize)
            => /\ ~last'.ok
               /\ last'.err = "too large"
               /\ last'.evicted = <<>>
               /\ UNCHANGED <<docs, bins, meta>>
       /\ (last'.op = "write" /\ last'.size = maxsize)
            => last'.err # "too large"]_vars

\* an oversize write was turned away while the cache holds an entry of
\* exactly maxsize bytes
C3_Witness ==
    /\ last.op = "write" /\ last.err = "too large" /\ last.size > maxsize
    /\ \E i \in 1..Len(meta.entries) :
          /\ meta.entries[i].size = maxsize
          /\ meta.entries[i].path \in DOMAIN docs

\* C4: after every successful write the size of the index is at most maxsize.
C4_SizeWithinMaxsize == (last.op = "write" /\ last.ok) => meta.size <= maxsize

\* a write succeeded after evicting an entry, and the index still counts
\* more than the new entry
C4_Witness ==
    /\ last.op = "write" /\ last.ok /\ last.evicted # <<>>
    /\ meta.size > last.size

\* the set of the elements of a sequence
Range(seq) == {seq[i] : i \in 1..Len(seq)}

\* the size of the first k of the entries of index with the paths ps
RECURSIVE SizeOfFirst(_, _, _)
SizeOfFirst(index, ps, k) ==
    IF k = 0 THEN 0
    ELSE EntryOf(index.entries, ps[k]).size + SizeOfFirst(index, ps, k - 1)

\* ps, a sequence of paths, is the shortest prefix of the entries of index
\* by ascending created whose sizes add up to d or more
ShortestOldestPrefix(index, ps, d) ==
    /\ \A i \in 1..Len(ps) : HasEntry(index.entries, ps[i])
    /\ \A i, j \in 1..Len(ps) : i # j => ps[i] # ps[j]
    /\ \A i, j \in 1..Len(ps) :
          i < j => EntryOf(index.entries, ps[i]).created
                      <= EntryOf(index.entries, ps[j]).created
    /\ \A i \in 1..Len(ps), k \in 1..Len(index.entries) :
          index.entries[k].path \notin Range(ps)
             => ~(index.entries[k].created < EntryOf(index.entries, ps[i]).created)
    /\ SizeOfFirst(index, ps, Len(ps)) >= d
    /\ \A k \in 0..(Len(ps) - 1) : SizeOfFirst(index, ps, k) < d

\* C5: when a write pushes index.size + newDataLength over maxsize by D > 0
\* and reduceCacheSize finds enough entries, the entries it deletes are the
\* shortest prefix of the index entries by ascending created whose sizes add
\* up to at least D: none is deleted while a strictly older one stays, and
\* none after the sizes deleted have reached D.
C5_EvictsShortestOldestPrefix ==
    [][(/\ last'.op = "write"
        /\ last'.err \in {"", "ENOENT"}
        /\ meta.size + last'.size - maxsize > 0)
          => ShortestOldestPrefix(meta, last'.evicted,
                                  meta.size + last'.size - maxsize)]_vars

\* a write evicted one entry and stopped: an entry of another path, created
\* after the clock moved, is still in the index
C5_Witness ==
    /\ last.op = "write" /\ last.ok /\ Len(last.evicted) = 1
    /\ \E k \in 1..Len(meta.entries) :
          /\ meta.entries[k].path # last.path
          /\ meta.entries[k].created > 0

\* the entries and files of the paths a write that evicted has left alone:
\* evicted paths (all of them, or all but the written one) have no
\* document, no .bin file and no index entry; the other entries, the
\* written path aside, keep their record and their files
EvictionEffect(exceptWritten) ==
    (last'.op = "write" /\ last'.ok /\ last'.evicted # <<>>)
      => /\ \A q \in Range(last'.evicted) :
               (exceptWritten => q # last'.path)
                 => /\ q \notin DOMAIN docs'
                    /\ DOMAIN BinsOf(bins', q) = {}
                    /\ ~HasEntry(meta'.entries, q)
         /\ \A k \in 1..Len(meta.entries) :
               LET e == meta.entries[k]
               IN  (e.path \notin Range(last'.evicted) /\ e.path # last'.path)
                     => /\ HasEntry(meta'.entries, e.path)
                        /\ EntryOf(meta'.entries, e.path) = e
                        /\ (e.path \in DOMAIN docs) = (e.path \in DOMAIN docs')
                        /\ e.path \in DOMAIN docs => docs'[e.path] = docs[e.path]
                        /\ BinsOf(bins', e.path) = BinsOf(bins, e.path)

\* C6 (as claimed): after a successful write that evicted, every evicted
\* entry has no document, no .bin file and no index entry, and every other
\* entry but the written path keeps its index record and its files.
C6_EvictedGoneOthersKept == [][EvictionEffect(FALSE)]_vars

\* C6 (amended): the same, for every evicted entry other than the path
\* being written: an evicted entry of the written path is created again by
\* the write.
C6_EvictedOthersGoneRestKept == [][EvictionEffect(TRUE)]_vars

\* a write evicted one entry with an external buffer file, and an entry of
\* a third path is still there with its document
C6_Witness ==
    /\ last.op = "write" /\ last.ok /\ Len(last.evicted) = 1
    /\ last.evicted[1] # last.path
    /\ \E k \in 1..Len(meta.entries) :
          /\ meta.entries[k].path # last.path
          /\ meta.entries[k].path \in DOMAIN docs

\* C7: a successful delete of an entry of the index lowers index.size by
\* the size of the entry, removes path from index.entries and leaves the
\* other entries as they were.
C7_DeleteRemovesEntry ==
    [][(last'.op = "delete" /\ last'.ok)
          => /\ HasEntry(meta.entries, last'.path)
             /\ meta'.size = meta.size - EntryOf(meta.entries, last'.path).size
             /\ ~HasEntry(meta'.entries, last'.path)
             /\ \A k \in 1..Len(meta.entries) :
                   meta.entries[k].path # last'.path
                      => /\ HasEntry(meta'.entries, meta.entries[k].path)
                         /\ EntryOf(meta'.entries, meta.entries[k].path)
                               = meta.entries[k]]_vars

\* C8: in a history of successful writes and deletes, every path of
\* index.entries has its document on disk.
C8_EntriesHaveDocument ==
    ~failed => \A k \in 1..Len(meta.entries) : meta.entries[k].path \in DOMAIN docs

\* C9: a delete of a path that has no document fails with ENOENT and
\* changes neither the index nor any file, whatever the index holds for the
\* path.
C9_DeleteMissingChangesNothing ==
    [][(last'.op = "delete" /\ last'.path \notin DOMAIN docs)
          => /\ ~last'.ok
             /\ last'.err = "ENOENT"
             /\ UNCHANGED <<docs, bins, meta>>]_vars

\* a delete of a path without document failed while the index has an entry
\* for the path and other paths have files
C9_Witness ==
    /\ last.op = "delete" /\ ~last.ok /\ last.err = "ENOENT"
    /\ HasEntry(meta.entries, last.path)
    /\ DOMAIN docs # {} /\ DOMAIN bins # {}

\* C10: a read of a path that follows a successful write of a value to the
\* path, with no call in between, succeeds and returns that value, with
\* every Buffer equal byte for byte and in its place, whatever the path held
\* before.
C10_ReadReturnsWritten ==
    [][(/\ last.op = "write" /\ last.ok
        /\ last'.op = "read" /\ last'.path = last.path)
          => /\ last'.ok
             /\ last'.value = last.value]_vars

\* a read returned a value of one external buffer from a path that still
\* has the second .bin file of a value written before
C10_Witness ==
    /\ last.op = "read" /\ last.ok /\ last.value = ValOne
    /\ <<last.path, 1>> \in DOMAIN bins

\* C15: a write that enters reduceCacheSize with a bytesToReduce greater
\* than the sum of the sizes of the entries of the loaded index fails with
\* the fault of the loop; the index is not rewritten and no document and
\* no .bin file is written or removed.
C15_EvictionRunsOutFaults ==
    [][(/\ last'.op = "write"
        /\ last'.size <= maxsize
        /\ meta.size + last'.size - maxsize > SumSizes(meta.entries))
          => /\ ~last'.ok
             /\ last'.err = "TypeError"
             /\ UNCHANGED <<docs, bins, meta>>]_vars

\* a write ran out of entries to evict while the index had an entry with
\* its document on disk
C15_Witness ==
    /\ last.op = "write" /\ last.err = "TypeError"
    /\ last.evicted # <<>>
    /\ \A i \in 1..Len(last.evicted) : last.evicted[i] \in DOMAIN docs

\* C19: in a history without a failed call, every write whose newDataLength
\* is at most maxsize succeeds.
C19_FittingWriteSucceeds ==
    [][(~failed /\ last'.op = "write" /\ last'.size <= maxsize) => last'.ok]_vars

\* the Buffers of a value that are moved out, in the order of traversal
RECURSIVE LargeBuffers(_)
LargeBuffers(v) ==
    CASE v.t = "buf" -> IF BLen(v.data) >= InlineThreshold THEN <<v.data>> ELSE <<>>
      [] v.t = "arr" ->
            IF v.items = <<>> THEN <<>>
            ELSE LargeBuffers(Head(v.items)) \o LargeBuffers(Arr(Tail(v.items)))
      [] OTHER -> <<>>

\* the placeholders of a document, in the order of traversal
RECURSIVE PlaceholdersOf(_)
PlaceholdersOf(d) ==
    CASE d.t = "ExternalBuffer" -> <<d>>
      [] d.t = "arr" ->
            IF d.items = <<>> THEN <<>>
            ELSE PlaceholdersOf(Head(d.items)) \o PlaceholdersOf(Arr(Tail(d.items)))
      [] OTHER -> <<>>

\* C18: a successful write of a value with N Buffers moved out leaves a
\* document whose placeholders, in traversal order, have the indices 0..N-1
\* and the lengths of those Buffers as sizes; the .bin files 0..N-1 of the
\* path exist and hold the bytes of those Buffers; and the .bin files the
\* write created or changed are of the indices 0..N-1 only.
C18_PlaceholdersNumberSegments ==
    [][(last'.op = "write" /\ last'.ok)
          => LET path == last'.path
                 bufs == LargeBuffers(last'.value)
                 phs == PlaceholdersOf(docs'[path])
             IN  /\ Len(phs) = Len(bufs)
                 /\ \A k \in 1..Len(bufs) :
                        /\ phs[k].index = k - 1
                        /\ phs[k].size = BLen(bufs[k])
                        /\ <<path, k - 1>> \in DOMAIN bins'
                        /\ bins'[<<path, k - 1>>] = bufs[k]
                 /\ \A x \in DOMAIN bins' :
                        (x[1] = path /\ (x \notin DOMAIN bins \/ bins[x] # bins'[x]))
                            => x[2] < Len(bufs)]_vars

\* a write of the nested value with two Buffers moved out has succeeded
C18_Witness ==
    /\ last.op = "write" /\ last.ok /\ last.value = ValTwo
    /\ ExternalRefs(docs[last.path]) = {0, 1}

\* C16: a delete of a path whose document is on disk removes the document
\* and every .bin file of the path, whatever the number of .bin files (none,
\* or more than the document refers to), with or without a cachePath; so
\* after a successful delete neither the document nor a .bin file of the
\* path is on disk.
C16_DeleteRemovesDocumentAndSegments ==
    [][(/\ last'.op = "delete"
        /\ (last'.ok \/ last'.path \in DOMAIN docs))
          => /\ last'.path \notin DOMAIN docs'
             /\ DOMAIN BinsOf(bins', last'.path) = {}]_vars

\* a delete without cachePath has unlinked two .bin files of a path whose
\* last value, of size 1071, had one external buffer
C16_Witness ==
    /\ last.op = "delete" /\ last.ok /\ last.value = Num(2)
    /\ HasEntry(meta.entries, last.path)
    /\ EntryOf(meta.entries, last.path).size = NewDataLength(Stringify(ValOne, <<>>))
    /\ last.path \notin DOMAIN docs
    /\ DOMAIN BinsOf(bins, last.path) = {}

\* C20: when every path is written at most once and delete is not called,
\* a write that passes the size check and calls reduceCacheSize has a
\* bytesToReduce of at most the sum of the sizes of the entries of the
\* index, and succeeds.
C20_EvictionHasEnoughEntries ==
    [][(/\ last'.op = "write"
        /\ last'.size <= maxsize
        /\ OverBudget(meta.size + last'.size, maxsize))
          => /\ meta.size + last'.size - maxsize <= SumSizes(meta.entries)
             /\ last'.ok]_vars

\* the fourth path was written, with an eviction that left an entry
C20_Witness ==
    /\ Cardinality(written) = 4
    /\ last.op = "write" /\ last.ok /\ last.evicted # <<>>
    /\ Len(meta.entries) >= 2

\* C11: while a read is running no file changes, meta.json included, and
\* what the read returns is what the document and the .bin files of its
\* path give: it succeeds exactly when the document is there, is JSON text
\* and every .bin file it refers to is there, whether or not meta.json is
\* there, is JSON text, or has an entry of the path.
C11_ReadLeavesIndexAlone ==
    [][/\ (calls[1].op = "read" /\ InFlight(calls[1]))
            => UNCHANGED <<docs, bins, meta>>
       /\ (calls'[1].op = "read" /\ calls'[1].pc = "done")
            => LET path == calls'[1].path
               IN  /\ calls'[1].ok =
                        (/\ path \in DOMAIN docs'
                         /\ docs'[path] # TornDocument
                         /\ \A i \in ExternalRefs(docs'[path]) :
                                <<path, i>> \in DOMAIN bins')
                   /\ calls'[1].ok =>
                        Stringify(calls'[1].value, <<>>).doc = docs'[path]]_vars

\* a read has succeeded while meta.json is not JSON text
C11_Witness ==
    /\ calls[1].op = "read" /\ calls[1].pc = "done" /\ calls[1].ok
    /\ IsBroken(meta)

\* the entry that the write of call p made is in meta.json
EntryPersisted(p) ==
    \E i \in 1..Len(meta.entries) :
        /\ meta.entries[i].path = calls[p].path
        /\ meta.entries[i].created = calls[p].created

\* C12: when two writes on different paths have both succeeded and one of
\* them wrote meta.json after the other had loaded it and before the other
\* wrote it, meta.json is the metadata of the other write: it lacks the
\* entry of the first writer, and its size is without the size of that
\* entry.
C12_LostIndexUpdate ==
    \A p \in Procs, q \in Procs :
        (/\ p # q
         /\ calls[p].op = "write" /\ calls[p].pc = "done" /\ calls[p].ok
         /\ calls[q].op = "write" /\ calls[q].pc = "done" /\ calls[q].ok
         /\ calls[p].created \in calls[q].lost)
            => /\ ~EntryPersisted(p)
               /\ EntryPersisted(q)
               /\ meta.size = calls[q].metadata.size
               /\ meta.entries = calls[q].metadata.entries

\* two writes on an empty cache have both succeeded, both documents are on
\* disk and meta.json has the entry of the second writer only
C12_Witness ==
    /\ \A p \in Procs : calls[p].op = "write" /\ calls[p].pc = "done" /\ calls[p].ok
    /\ calls[1].created \in calls[2].lost
    /\ {calls[1].path, calls[2].path} \subseteq DOMAIN docs
    /\ PathsOf(meta.entries) = <<calls[2].path>>
    /\ meta.size = NewDataLength(Stringify(calls[2].data, <<>>))

\* the read of call p has returned what the path held when it began
ReadAsExpected(p) == calls[p].ok /\ calls[p].value = calls[p].expect.value

\* C13 as stated: a read of a path that held a value when the read began
\* succeeds and returns that value, whatever the other call, on another
\* path, does meanwhile.
C13_ReadUnaffectedByOtherWrite ==
    \A p \in Procs :
        (calls[p].op = "read" /\ calls[p].pc = "done" /\ calls[p].expect.ok)
            => ReadAsExpected(p)

\* C13, amended: a read of a path that held a value when the read began
\* succeeds and returns that value, whatever the other call, on another
\* path, does meanwhile, unless the eviction of a write removed the files
\* of the path while the read was running.
C13_ReadUnaffectedUnlessEvicted ==
    \A p \in Procs :
        (/\ calls[p].op = "read" /\ calls[p].pc = "done" /\ calls[p].expect.ok
         /\ ~calls[p].hit)
            => ReadAsExpected(p)

\* a read of a value of two external buffers has returned while the write
\* of the other call, on the other path, is between its document and its
\* .bin files
C13_Witness ==
    \E p \in Procs, q \in Procs :
        /\ calls[p].op = "read" /\ calls[p].pc = "done" /\ calls[p].expect.ok
        /\ ~calls[p].hit /\ calls[p].value = ValTwo
        /\ calls[q].op = "write" /\ calls[q].pc \in {"persist", "segs"}

\* a file was removed / a document, a .bin file was created or changed
FilesRemoved ==
    \/ \E x \in DOMAIN docs : x \notin DOMAIN docs'
    \/ \E x \in DOMAIN bins : x \notin DOMAIN bins'
DocWritten == \E x \in DOMAIN docs' : x \notin DOMAIN docs \/ docs[x] # docs'[x]
BinWritten == \E x \in DOMAIN bins' : x \notin DOMAIN bins \/ bins[x] # bins'[x]

\* the entries of an index file
EntriesOfFile(file) == IF IsBroken(file) THEN {} ELSE Range(file.entries)

\* C14: the effects of a write come in the order deletions of the eviction,
\* document, index, .bin files: a file is removed only before the write
\* has written its document; the document is written before the index is;
\* meta.json is written once, when the document of the value is on disk and
\* no .bin file has been written, and every entry it gains is of a path
\* whose document is on disk; a .bin file is written only when meta.json
\* has the entry of the write.
C14_EffectsInOrder ==
    [][LET c == calls[1]
           enc == Stringify(c.data, <<>>)
       IN  /\ FilesRemoved =>
                /\ c.op = "write" /\ c.pc = "evict"
                /\ c.created = 0 /\ c.persists = 0
           /\ DocWritten =>
                /\ c.op = "write" /\ c.pc = "doc"
                /\ c.persists = 0
                /\ UNCHANGED <<bins, meta>>
           /\ meta' # meta =>
                /\ c.op = "write" /\ c.created > 0 /\ c.persists = 0
                /\ c.path \in DOMAIN docs /\ docs[c.path] = enc.doc
                /\ c.todo = {enc.ext[i].index : i \in 1..Len(enc.ext)}
                /\ \A e \in EntriesOfFile(meta') \ EntriesOfFile(meta) :
                        e.path \in DOMAIN docs
                /\ UNCHANGED <<docs, bins>>
           /\ BinWritten =>
                /\ c.op = "write" /\ c.persists = 1
                /\ EntryPersisted(1)
                /\ UNCHANGED <<docs, meta>>
           /\ (calls'[1].op = "write" /\ calls'[1].pc = "done" /\ calls'[1].ok)
                => calls'[1].persists = 1]_vars

\* after a crash meta.json has the entry of the write that was running, the
\* document of the value is on disk and a .bin file it refers to is not
C14_Witness ==
    /\ calls[1].pc = "idle"
    /\ ~IsBroken(meta)
    /\ \E path \in StepPaths :
        /\ HasEntry(meta.entries, path)
        /\ EntryOf(meta.entries, path).created = now
        /\ path \in DOMAIN docs
        /\ docs[path] # TornDocument
        /\ \E i \in ExternalRefs(docs[path]) : <<path, i>> \notin DOMAIN bins

\* C17: a read of a document with a placeholder whose .bin file is missing,
\* or has fewer bytes than the size of the placeholder, fails.
C17_ReadFailsOnBadSegment ==
    LET c == calls[1]
    IN  (/\ c.op = "read" /\ c.pc = "done"
         /\ c.path \in DOMAIN docs
         /\ docs[c.path] # TornDocument
         /\ \E k \in 1..Len(PlaceholdersOf(docs[c.path])) :
                LET ph == PlaceholdersOf(docs[c.path])[k]
                IN  \/ <<c.path, ph.index>> \notin DOMAIN bins
                    \/ BLen(bins[<<c.path, ph.index>>]) < ph.size)
            => ~c.ok

====
